---- MODULE Spec2Model ----
(***************************************************************************)
(* mongoose-go: a generic collection wrapper over the MongoDB Go driver.   *)
(*                                                                         *)
(* src/mon.go    ObjId, GetContext, CollectionWrapper[M] and its methods   *)
(* src/config.go ConnectDB, GetCollection, CreateIndex, the globals DB and *)
(*               DatabaseName                                              *)
(*                                                                         *)
(* The wrapper methods are one driver call each; the driver and the server *)
(* behind it are modelled at the call sites by what the calls do to a      *)
(* collection (an insertion-ordered sequence of BSON documents).           *)
(***************************************************************************)
EXTENDS Integers, Sequences, FiniteSets, TLC

VARIABLES
    wrappers,     \* collection name -> the document shape M of its CollectionWrapper[M]
    db,           \* collection name -> stored BSON documents, in natural order
    last,         \* the most recent wrapper call of the sequential caller: arguments and results
    DB,           \* config.go:14  the process-wide client (0 = nil)
    DatabaseName, \* config.go:15
    conn,         \* the ConnectDB call in progress (its locals and position)
    clients,      \* client handle -> what the driver did with it
    pc,           \* caller -> position inside the wrapper call it is running
    call,         \* caller -> the call it is running or ran last (arguments, locals, results)
    ctxs          \* context handle -> "live" | "cancelled", for every context allocated

vars == <<wrappers, db, last, DB, DatabaseName, conn, clients, pc, call, ctxs>>

(***************************************************************************)
(* Bounds                                                                  *)
(***************************************************************************)
\* An ObjectID is IdBytes bytes, written as 2*IdBytes hex digits (12 and 24 in the driver).
IdBytes == 1
\* Documents per collection.
MaxDocs == 2
\* Contexts allocated in one behaviour.
MaxCtx == 4
\* Client handles constructed in one behaviour.
MaxClients == 3

(***************************************************************************)
(* mon.go:15-23  collection names                                          *)
(***************************************************************************)
Users == "users"
QuizTemplates == "quiz_templates"
Campaigns == "campaigns"

(***************************************************************************)
(* Identifiers and their hex form                                          *)
(***************************************************************************)
HexLen == 2 * IdBytes
NilObjectID == 0
\* The identifiers in play: the zero-value ObjectID and one more for every
\* document a collection can hold (the driver can always generate a new one).
Ids == 0..MaxDocs

HexDigits == <<"0", "1", "2", "3", "4", "5", "6", "7", "8", "9", "a", "b", "c", "d", "e", "f">>
UpperDigits == <<"A", "B", "C", "D", "E", "F">>

IsHexChar(ch) ==
    \/ \E i \in 1..Len(HexDigits) : HexDigits[i] = ch
    \/ \E i \in 1..Len(UpperDigits) : UpperDigits[i] = ch

FromHexChar(ch) ==
    IF \E i \in 1..Len(HexDigits) : HexDigits[i] = ch
    THEN (CHOOSE i \in 1..Len(HexDigits) : HexDigits[i] = ch) - 1
    ELSE (CHOOSE i \in 1..Len(UpperDigits) : UpperDigits[i] = ch) + 9

RECURSIVE HexValue(_)
HexValue(s) ==
    IF s = <<>> THEN 0
    ELSE 16 * HexValue(SubSeq(s, 1, Len(s) - 1)) + FromHexChar(s[Len(s)])

\* primitive.ObjectIDFromHex: the length check, then the hex decoding; the
\* zero-value identifier comes back with every error.
ObjectIDFromHex(s) ==
    IF Len(s) # HexLen THEN [oid |-> NilObjectID, err |-> "ErrInvalidHex"]
    ELSE IF \E i \in 1..Len(s) : ~IsHexChar(s[i])
         THEN [oid |-> NilObjectID, err |-> "InvalidByteError"]
         ELSE [oid |-> HexValue(s), err |-> "nil"]

\* mon.go:36-39  the error of ObjectIDFromHex is dropped
ObjId(s) == ObjectIDFromHex(s).oid

\* ObjectID.Hex: HexLen lower-case digits, most significant first.
RECURSIVE HexDigitsOf(_, _)
HexDigitsOf(v, k) ==
    IF k = 0 THEN <<>>
    ELSE Append(HexDigitsOf(v \div 16, k - 1), HexDigits[(v % 16) + 1])

Hex(id) == HexDigitsOf(id, HexLen)

ZeroHex == [i \in 1..HexLen |-> "0"]

\* The id strings a caller passes: the hex form of every identifier in play,
\* and malformed ones (empty, too long, a non-hex digit).
IdStrings ==
    {Hex(i) : i \in Ids}
    \cup {<<>>, ZeroHex \o <<"0">>, [ZeroHex EXCEPT ![HexLen] = "g"]}

Malformed(s) == ObjectIDFromHex(s).err # "nil"

(***************************************************************************)
(* Document shapes: the type parameter M of CollectionWrapper[M]           *)
(*                                                                         *)
(* A shape names the BSON fields the Go struct declares and which of them  *)
(* carry omitempty.  A Go value of the shape is a record over its fields;  *)
(* a BSON document is a record over the fields it stores.                  *)
(***************************************************************************)
Zero(f) ==
    CASE f = "_id" -> NilObjectID
      [] f = "role" -> ""
      [] f = "n" -> 0
      [] OTHER -> <<>>

ZeroValue(sh) == [f \in sh.fields |-> Zero(f)]

\* Faulty variant: every zero value is left out, omitempty or not.
EncodeOmitZero(sh, d) ==
    [f \in {g \in sh.fields : d[g] # Zero(g)} |-> d[f]]

\* bson.Marshal of a struct: a zero value under omitempty is not written.
Encode(sh, d) ==
    [f \in {g \in sh.fields : ~(g \in sh.omitempty /\ d[g] = Zero(g))} |-> d[f]]

\* bson.Unmarshal into a struct: a field the document stores is set, any
\* other field of the destination keeps its value.
Decode(sh, doc, model) ==
    [f \in sh.fields |-> IF f \in DOMAIN doc THEN doc[f] ELSE model[f]]

(***************************************************************************)
(* The driver calls, at their call sites                                   *)
(***************************************************************************)
\* A filter is a list of <<field, value>> pairs; every pair must be met.
Match(doc, q) ==
    \A i \in 1..Len(q) : q[i][1] \in DOMAIN doc /\ doc[q[i][1]] = q[i][2]

Matching(coll, q) == SelectSeq(coll, LAMBDA doc : Match(doc, q))

HasId(coll, id) == \E i \in 1..Len(coll) : coll[i]["_id"] = id

\* mon.go:149  Collection.InsertOne: a document without _id gets a generated
\* one, a document with _id keeps it; _id is unique in the collection.
InsertOne(coll, doc, fresh) ==
    LET id == IF "_id" \in DOMAIN doc THEN doc["_id"] ELSE fresh
    IN  IF HasId(coll, id)
        THEN [err |-> "E11000 duplicate key", coll |-> coll, id |-> <<>>]
        ELSE [err |-> "nil", coll |-> Append(coll, ("_id" :> id) @@ doc), id |-> <<id>>]

\* The identifiers the driver may generate for the insert of doc into coll:
\* any non-zero one no document carries (none is needed when doc has _id).
NewObjectID(coll, doc) ==
    IF "_id" \in DOMAIN doc THEN {NilObjectID}
    ELSE {i \in Ids \ {NilObjectID} : ~HasId(coll, i)}

\* mon.go:77  Collection.FindOne: the first match in natural order, if any.
SingleResult(coll, q) ==
    IF Matching(coll, q) = <<>> THEN <<>> ELSE <<Head(Matching(coll, q))>>

\* An update is [op, field, val]: {op: {field: val}}.  Without an operator
\* it is a replacement document, which the update calls reject.
IsUpdate(u) == u.op \in {"$set", "$inc"}

ApplyUpdate(doc, u) ==
    IF u.op = "$inc" /\ u.field \in DOMAIN doc
    THEN [doc EXCEPT ![u.field] = @ + u.val]
    ELSE (u.field :> u.val) @@ doc

FirstMatch(coll, q) == CHOOSE i \in 1..Len(coll) :
    /\ Match(coll[i], q)
    /\ \A j \in 1..(i - 1) : ~Match(coll[j], q)

\* Faulty variant: upsert on no match.
DriverFindOneAndUpdateUpsert(coll, find, update) ==
    IF ~IsUpdate(update)
    THEN [err |-> "update document must contain key beginning with '$'",
          doc |-> <<>>, coll |-> coll]
    ELSE IF Matching(coll, find) = <<>>
    THEN [err |-> "mongo: no documents in result", doc |-> <<>>,
          coll |-> Append(coll, ApplyUpdate([_id |-> NilObjectID], update))]
    ELSE LET i == FirstMatch(coll, find)
         IN  [err |-> "nil", doc |-> <<coll[i]>>,
              coll |-> [coll EXCEPT ![i] = ApplyUpdate(@, update)]]

\* mon.go:128  Collection.FindOneAndUpdate with no options: one atomic
\* find-and-modify on the first match; no upsert; the document handed back
\* is the one found, as it was before the update.
DriverFindOneAndUpdate(coll, find, update) ==
    IF ~IsUpdate(update)
    THEN [err |-> "update document must contain key beginning with '$'",
          doc |-> <<>>, coll |-> coll]
    ELSE IF Matching(coll, find) = <<>>
    THEN [err |-> "mongo: no documents in result", doc |-> <<>>, coll |-> coll]
    ELSE LET i == FirstMatch(coll, find)
         IN  [err |-> "nil", doc |-> <<coll[i]>>,
              coll |-> [coll EXCEPT ![i] = ApplyUpdate(@, update)]]

\* Faulty variant: the results are appended to what the slice held.
CursorAllAppend(sh, docs, elem) ==
    elem \o [i \in 1..Len(docs) |-> Decode(sh, docs[i], ZeroValue(sh))]

\* mon.go:171  Cursor.All: document i is decoded into element i of the
\* slice (an element the slice already has is decoded into as it is, a new
\* one starts zeroed); the slice ends with one element per document.
CursorAll(sh, docs, elem) ==
    [i \in 1..Len(docs) |->
        Decode(sh, docs[i], IF i <= Len(elem) THEN elem[i] ELSE ZeroValue(sh))]

\* The values of the local field that $lookup joins on: the elements of an
\* array, the value of a scalar, nothing for a field the document lacks.
IsArray(field) == field \in {"refs", "data"}

LocalValues(doc, field) ==
    IF field \notin DOMAIN doc THEN {}
    ELSE IF IsArray(field) THEN {doc[field][k] : k \in 1..Len(doc[field])}
    ELSE {doc[field]}

\* Faulty variant: only the first foreign match is attached.
LookupOne(doc, foreign, populate) ==
    LET joined == SelectSeq(foreign,
                      LAMBDA f : f["_id"] \in LocalValues(doc, populate.LocalField))
    IN  (populate.As :> (IF joined = <<>> THEN <<>> ELSE <<Head(joined)>>)) @@ doc

\* mon.go:206-218  the $lookup stage on one input document: the foreign
\* documents whose _id the local field holds, as an array under As
\* (left outer: the array is empty when there is none).
Lookup(doc, foreign, populate) ==
    (populate.As :> SelectSeq(foreign,
                        LAMBDA f : f["_id"] \in LocalValues(doc, populate.LocalField)))
        @@ doc

\* mon.go:220  Collection.Aggregate with the pipeline {$match, $lookup}
Aggregate(coll, foreign, matchQuery, populate) ==
    LET matched == Matching(coll, matchQuery)
    IN  [i \in 1..Len(matched) |-> Lookup(matched[i], foreign, populate)]

(***************************************************************************)
(* mon.go  the methods of CollectionWrapper[M], as functions of the store  *)
(* c is the wrapper, named by its collection (c.name, c.I)                 *)
(***************************************************************************)
Coll(name) == IF name \in DOMAIN db THEN db[name] ELSE <<>>

\* mon.go:74-81
FindOne(c, query, model) ==
    LET r == SingleResult(Coll(c), query)
    IN  IF r = <<>>
        THEN [err |-> "Cannot find document", model |-> model]
        ELSE [err |-> "nil", model |-> Decode(wrappers[c], r[1], model)]

\* Faulty variant: a malformed id is refused before the store is asked.
FindOneByIdStrict(c, id, model) ==
    IF Malformed(id) THEN [err |-> "invalid id", model |-> model]
    ELSE FindOne(c, <<<<"_id", ObjId(id)>>>>, model)

\* mon.go:91-93
FindOneById(c, id, model) == FindOne(c, <<<<"_id", ObjId(id)>>>>, model)

\* mon.go:125-133
FindOneAndUpdate(c, find, update, updated) ==
    LET r == DriverFindOneAndUpdate(Coll(c), find, update)
    IN  IF r.err # "nil"
        THEN [err |-> "Cannot update document", updated |-> updated, coll |-> r.coll]
        ELSE [err |-> "nil", updated |-> Decode(wrappers[c], r.doc[1], updated),
              coll |-> r.coll]

\* mon.go:108-110
FindByIdAndUpdate(c, idHex, update, updated) ==
    FindOneAndUpdate(c, <<<<"_id", ObjId(idHex)>>>>, update, updated)

\* mon.go:146-151  the InsertOneResult (the assigned id) is dropped; it is
\* kept here for the properties that speak of it.
New(c, document, fresh) ==
    LET r == InsertOne(Coll(c), Encode(wrappers[c], document), fresh)
    IN  [err |-> r.err, coll |-> r.coll, id |-> r.id]

\* mon.go:164-175  on a reachable server Find and All do not fail
FindMany(c, bson, elem) ==
    [err |-> "nil", elem |-> CursorAll(wrappers[c], Matching(Coll(c), bson), elem)]

\* mon.go:201-229  on a reachable server Aggregate and All do not fail
FindManyPopulate(c, matchQuery, populate, elem) ==
    [err |-> "nil",
     elem |-> CursorAll(wrappers[c],
                  Aggregate(Coll(c), Coll(populate.ForeignModel), matchQuery, populate),
                  elem)]

(***************************************************************************)
(* The sequential caller: one wrapper call at a time on the users wrapper  *)
(***************************************************************************)
UserShapes ==
    {[fields |-> {"role"}, omitempty |-> {}],
     [fields |-> {"_id", "role"}, omitempty |-> {}],
     [fields |-> {"_id", "role"}, omitempty |-> {"_id"}],
     [fields |-> {"_id", "role"}, omitempty |-> {"_id", "role"}]}

RoleInputs == {"", "King"}

UserValues(sh) ==
    IF "_id" \in sh.fields
    THEN {[_id |-> i, role |-> r] : i \in Ids, r \in RoleInputs}
    ELSE {[role |-> r] : r \in RoleInputs}

\* What the caller's output variable holds on entry: a fresh value
\* (user := User{}) or one used before.
UserModels(sh) == {ZeroValue(sh), [ZeroValue(sh) EXCEPT !["role"] = "Stale"]}

UserSlices(sh) == {<<>>, <<[ZeroValue(sh) EXCEPT !["role"] = "Stale"]>>}

Queries ==
    {<<>>}
    \cup {<<<<"role", r>>>> : r \in RoleInputs}
    \cup {<<<<"_id", 1>>>>}

\* {"$set": {"role": "King"}}, and {"role": "King"}, which has no operator.
Updates ==
    {[op |-> "$set", field |-> "role", val |-> "King"],
     [op |-> "", field |-> "role", val |-> "King"]}

NoCall ==
    [op |-> "none", id |-> <<>>, query |-> <<>>, update |-> <<>>, doc |-> <<>>,
     populate |-> <<>>, assigned |-> <<>>, prev |-> <<>>, err |-> "nil",
     out0 |-> <<>>, out |-> <<>>, db0 |-> <<>>]

\* The successful New that the call now starting follows immediately, if any.
JustInserted ==
    IF last.op = "New" /\ last.err = "nil"
    THEN <<[doc |-> last.doc[1], id |-> last.assigned[1]]>>
    ELSE <<>>

Others == <<DB, DatabaseName, conn, clients, pc, call, ctxs>>

CallNew(c, document, fresh) ==
    LET r == New(c, document, fresh)
    IN  /\ Len(Coll(c)) < MaxDocs
        /\ db' = [db EXCEPT ![c] = r.coll]
        /\ last' = [NoCall EXCEPT !.op = "New", !.doc = <<document>>, !.err = r.err,
                                  !.assigned = r.id, !.db0 = db[c]]
        /\ UNCHANGED <<wrappers, Others>>

CallFindOne(c, query, model) ==
    LET r == FindOne(c, query, model)
    IN  /\ last' = [NoCall EXCEPT !.op = "FindOne", !.query = query, !.err = r.err,
                                  !.out0 = <<model>>, !.out = <<r.model>>, !.db0 = db[c]]
        /\ UNCHANGED <<wrappers, db, Others>>

CallFindOneById(c, id, model) ==
    LET r == FindOneById(c, id, model)
    IN  /\ last' = [NoCall EXCEPT !.op = "FindOneById", !.id = id, !.err = r.err,
                                  !.prev = JustInserted,
                                  !.out0 = <<model>>, !.out = <<r.model>>, !.db0 = db[c]]
        /\ UNCHANGED <<wrappers, db, Others>>

CallFindOneAndUpdate(c, find, update, updated) ==
    LET r == FindOneAndUpdate(c, find, update, updated)
    IN  /\ db' = [db EXCEPT ![c] = r.coll]
        /\ last' = [NoCall EXCEPT !.op = "FindOneAndUpdate", !.query = find,
                                  !.update = <<update>>, !.err = r.err,
                                  !.out0 = <<updated>>, !.out = <<r.updated>>,
                                  !.db0 = db[c]]
        /\ UNCHANGED <<wrappers, Others>>

CallFindByIdAndUpdate(c, idHex, update, updated) ==
    LET r == FindByIdAndUpdate(c, idHex, update, updated)
    IN  /\ db' = [db EXCEPT ![c] = r.coll]
        /\ last' = [NoCall EXCEPT !.op = "FindByIdAndUpdate", !.id = idHex,
                                  !.query = <<<<"_id", ObjId(idHex)>>>>,
                                  !.update = <<update>>, !.err = r.err,
                                  !.out0 = <<updated>>, !.out = <<r.updated>>,
                                  !.db0 = db[c]]
        /\ UNCHANGED <<wrappers, Others>>

CallFindMany(c, bson, elem) ==
    LET r == FindMany(c, bson, elem)
    IN  /\ last' = [NoCall EXCEPT !.op = "FindMany", !.query = bson, !.err = r.err,
                                  !.out0 = elem, !.out = r.elem, !.db0 = db[c]]
        /\ UNCHANGED <<wrappers, db, Others>>

Idle ==
    /\ DB = 1 /\ DatabaseName = "app" /\ conn = [pc |-> "idle"]
    /\ clients = <<"pinged">>
    /\ pc = <<>> /\ call = <<>> /\ ctxs = <<>>

Init ==
    /\ wrappers \in {[c \in {Users} |-> sh] : sh \in UserShapes}
    /\ db = [c \in {Users} |-> <<>>]
    /\ last = NoCall
    /\ Idle

Next ==
    \/ \E d \in UserValues(wrappers[Users]) :
          \E fresh \in NewObjectID(db[Users], Encode(wrappers[Users], d)) :
              CallNew(Users, d, fresh)
    \/ \E q \in Queries, m \in UserModels(wrappers[Users]) : CallFindOne(Users, q, m)
    \/ \E id \in IdStrings, m \in UserModels(wrappers[Users]) : CallFindOneById(Users, id, m)
    \/ \E q \in Queries, u \in Updates, m \in UserModels(wrappers[Users]) :
          CallFindOneAndUpdate(Users, q, u, m)
    \/ \E id \in IdStrings, u \in Updates, m \in UserModels(wrappers[Users]) :
          CallFindByIdAndUpdate(Users, id, u, m)
    \/ \E q \in Queries, e \in UserSlices(wrappers[Users]) : CallFindMany(Users, q, e)

Spec == Init /\ [][Next]_vars

(***************************************************************************)
(* Properties of the sequential caller (Spec)                              *)
(***************************************************************************)
M == wrappers[Users]

\* A FindOneById that immediately follows a successful New(d) and is given
\* the hex string of the identifier assigned to d.
C1_Case ==
    /\ last.op = "FindOneById"
    /\ last.prev # <<>>
    /\ last.id = Hex(last.prev[1].id)

\* C1, as stated: New(d) without error, then FindOneById with the hex string
\* of the assigned identifier, returns no error and an output equal to d.
C1_RoundTripEqual ==
    C1_Case => /\ last.err = "nil"
               /\ last.out[1] = last.prev[1].doc

\* C1, amended: the FindOneById returns no error, and the output holds d's
\* value in every field d's encoding stores, the assigned identifier in _id,
\* and what it held on entry in a field d's encoding omits (a zero value
\* under omitempty); the assigned identifier is d's own whenever d's encoding
\* carries one.
C1_RoundTrip ==
    C1_Case =>
        LET d == last.prev[1].doc
            id == last.prev[1].id
            Omitted(f) == f \in M.omitempty /\ d[f] = Zero(f)
        IN  /\ last.err = "nil"
            /\ \A f \in M.fields :
                  last.out[1][f] = IF f = "_id" THEN id
                                   ELSE IF Omitted(f) THEN last.out0[1][f]
                                   ELSE d[f]
            /\ ("_id" \in M.fields /\ ~Omitted("_id")) => id = d["_id"]

\* C1 witness: a round trip of a document that carries the zero identifier
\* under omitempty, so that the driver generated the identifier.
C1_Witness ==
    /\ C1_Case
    /\ "_id" \in M.omitempty
    /\ last.prev[1].doc["_id"] = NilObjectID
    /\ last.prev[1].id # NilObjectID
    /\ last.err = "nil"

\* C2: for every id string and store, FindOneById(id, &out) gives the error
\* and the output that FindOne({_id: ObjId(id)}, &out) gives on that store
\* from the same output.
C2_ByIdIsFindOne ==
    last.op = "FindOneById" =>
        [err |-> last.err, model |-> last.out[1]]
            = FindOne(Users, <<<<"_id", ObjId(last.id)>>>>, last.out0[1])

\* C2 witness: a FindOneById that found a document and changed the output.
C2_Witness ==
    /\ last.op = "FindOneById"
    /\ last.err = "nil"
    /\ last.out # last.out0

\* C3, as stated: a malformed id string converts to the zero identifier and
\* FindOneById with it matches nothing: "Cannot find document", output
\* untouched.
C3_MalformedMatchesNothing ==
    (last.op = "FindOneById" /\ Malformed(last.id)) =>
        /\ ObjId(last.id) = NilObjectID
        /\ last.err = "Cannot find document"
        /\ last.out = last.out0

\* C4, as stated: FindMany returns nil and sets out to exactly the documents
\* matching the query.
C4_ExactlyMatching ==
    last.op = "FindMany" =>
        /\ last.err = "nil"
        /\ last.out = CursorAll(M, Matching(db[Users], last.query), <<>>)

\* C4, amended: FindMany returns nil and out ends with one element per
\* matching document, in order; element i holds document i's value in every
\* field the document stores, and in a field it does not store what element
\* i of out held on entry (zero if out had no element i).  With no match out
\* is empty.
C4_FindMany ==
    last.op = "FindMany" =>
        LET found == Matching(db[Users], last.query)
        IN  /\ last.err = "nil"
            /\ Len(last.out) = Len(found)
            /\ \A i \in 1..Len(found) : \A f \in M.fields :
                  last.out[i][f] = IF f \in DOMAIN found[i] THEN found[i][f]
                                   ELSE IF i <= Len(last.out0) THEN last.out0[i][f]
                                   ELSE Zero(f)
            /\ (found = <<>> => last.out = <<>>)

\* C4 witness: a FindMany that matched nothing in a non-empty collection,
\* called with a slice that held an element.
C4_Witness ==
    /\ last.op = "FindMany"
    /\ db[Users] # <<>>
    /\ Matching(db[Users], last.query) = <<>>
    /\ last.out0 # <<>>
    /\ last.out = <<>>

\* C5: with no document matching the filter, FindOneAndUpdate returns
\* "Cannot update document", the collection is as before, out is as before.
C5_NoMatch ==
    (last.op = "FindOneAndUpdate" /\ Matching(last.db0, last.query) = <<>>) =>
        /\ last.err = "Cannot update document"
        /\ db[Users] = last.db0
        /\ last.out = last.out0

\* C5 witness: an operator update whose filter matched nothing in a
\* non-empty collection.
C5_Witness ==
    /\ last.op = "FindOneAndUpdate"
    /\ IsUpdate(last.update[1])
    /\ last.db0 # <<>>
    /\ Matching(last.db0, last.query) = <<>>
    /\ last.out0[1]["role"] = "Stale"

\* C6, as stated: after a successful FindOneAndUpdate or FindByIdAndUpdate
\* the output holds the matched document as it is stored after the update.
C6_HoldsUpdated ==
    (last.op \in {"FindOneAndUpdate", "FindByIdAndUpdate"} /\ last.err = "nil") =>
        last.out[1] = Decode(M, db[Users][FirstMatch(last.db0, last.query)], last.out0[1])

(***************************************************************************)
(* Populate: a campaigns wrapper and a quiz_templates wrapper (SpecPop)    *)
(***************************************************************************)
\* type Campaign: the ids of its quizzes under refs, the populated quizzes
\* under data ([]bson.M), both omitempty, no _id field.
CampaignShape == [fields |-> {"refs", "data"}, omitempty |-> {"refs", "data"}]
QuizShape == [fields |-> {"_id", "role"}, omitempty |-> {}]

CampaignValues == {[refs |-> r, data |-> <<>>] : r \in {<<>>, <<1>>, <<2, 1>>}}
QuizValues == {[_id |-> i, role |-> "King"] : i \in Ids \ {NilObjectID}}

MatchQueries == {<<>>, <<<<"_id", 1>>>>}

\* "owner" is a field no campaign has; users is a collection with no documents.
Populates ==
    {[LocalField |-> "refs", ForeignModel |-> QuizTemplates, As |-> "data"],
     [LocalField |-> "owner", ForeignModel |-> QuizTemplates, As |-> "data"],
     [LocalField |-> "refs", ForeignModel |-> Users, As |-> "data"]}

CampaignSlices ==
    {<<>>, <<[refs |-> <<>>, data |-> <<[_id |-> NilObjectID, role |-> "Stale"]>>]>>}

CallFindManyPopulate(c, matchQuery, populate, elem) ==
    LET r == FindManyPopulate(c, matchQuery, populate, elem)
    IN  /\ last' = [NoCall EXCEPT !.op = "FindManyPopulate", !.query = matchQuery,
                                  !.populate = <<populate>>, !.err = r.err,
                                  !.out0 = elem, !.out = r.elem]
        /\ UNCHANGED <<wrappers, db, Others>>

InitPop ==
    /\ wrappers = (Campaigns :> CampaignShape) @@ (QuizTemplates :> QuizShape)
    /\ db = (Campaigns :> <<>>) @@ (QuizTemplates :> <<>>)
    /\ last = NoCall
    /\ Idle

NextPop ==
    \/ \E d \in CampaignValues :
          \E fresh \in NewObjectID(db[Campaigns], Encode(CampaignShape, d)) :
              CallNew(Campaigns, d, fresh)
    \/ \E d \in QuizValues : CallNew(QuizTemplates, d, NilObjectID)
    \/ \E q \in MatchQueries, p \in Populates, e \in CampaignSlices :
          CallFindManyPopulate(Campaigns, q, p, e)

SpecPop == InitPop /\ [][NextPop]_vars

\* C7: FindManyPopulate returns one result per document matching
\* matchQuery; result i carries under populate.As exactly the documents of
\* collection populate.ForeignModel whose _id is in document i's
\* populate.LocalField, each once; with no such document the field is an
\* empty array and the result is still returned.
C7_Populate ==
    last.op = "FindManyPopulate" =>
        LET p == last.populate[1]
            matched == Matching(db[Campaigns], last.query)
            foreign == Coll(p.ForeignModel)
            Wanted(doc) == {foreign[k] : k \in {j \in 1..Len(foreign) :
                               /\ p.LocalField \in DOMAIN doc
                               /\ \E x \in 1..Len(doc[p.LocalField]) :
                                     doc[p.LocalField][x] = foreign[j]["_id"]}}
            Got(i) == {last.out[i][p.As][k] : k \in 1..Len(last.out[i][p.As])}
        IN  /\ last.err = "nil"
            /\ Len(last.out) = Len(matched)
            /\ \A i \in 1..Len(matched) :
                  /\ Got(i) = Wanted(matched[i])
                  /\ Len(last.out[i][p.As]) = Cardinality(Wanted(matched[i]))

\* C7 witness: two campaigns came back, one with two populated quizzes and
\* one with none.
C7_Witness ==
    /\ last.op = "FindManyPopulate"
    /\ Len(last.out) = 2
    /\ \E i, j \in 1..2 : /\ Len(last.out[i]["data"]) = 2
                          /\ last.out[j]["data"] = <<>>

(***************************************************************************)
(* config.go  ConnectDB, statement by statement (SpecConn)                 *)
(*                                                                         *)
(* log.Fatal ends the process: position "exited", from which nothing       *)
(* runs.  A client handle is its index in clients; 0 is nil.               *)
(***************************************************************************)
\* config.go:26, mon.go:31  the timeouts of the contexts, in seconds
ConnectTimeout == 10
ContextTimeout == 10
\* config.go:57
IndexTimeout == 5

Uris == {"mongodb://localhost/app", "localhost/app"}
ValidUri(uri) == uri = "mongodb://localhost/app"
DatabaseNames == {"app", "test"}

NoConn == [pc |-> "idle"]

Rest == <<wrappers, db, last, pc, call>>

\* config.go:18  mongo.NewClient: a client, or an error for a uri it cannot parse
ConnectDB_NewClient(uri, databaseName) ==
    /\ conn.pc \in {"idle", "returned"}
    /\ Len(clients) < MaxClients
    /\ IF ValidUri(uri)
       THEN /\ clients' = Append(clients, "new")
            /\ conn' = [pc |-> "l20", databaseName |-> databaseName,
                        client |-> Len(clients) + 1, err |-> "nil", ctx |-> 0, ret |-> 0]
       ELSE /\ clients' = clients
            /\ conn' = [pc |-> "l20", databaseName |-> databaseName,
                        client |-> 0, err |-> "error parsing uri", ctx |-> 0, ret |-> 0]
    /\ UNCHANGED <<DB, DatabaseName, ctxs, Rest>>

\* config.go:20
ConnectDB_SetDatabaseName ==
    /\ conn.pc = "l20"
    /\ DatabaseName' = conn.databaseName
    /\ conn' = [conn EXCEPT !.pc = "l22"]
    /\ UNCHANGED <<DB, clients, ctxs, Rest>>

\* config.go:22-27  log.Fatal on the NewClient error, else the context
ConnectDB_CheckClient ==
    /\ conn.pc = "l22"
    /\ IF conn.err # "nil"
       THEN /\ conn' = [conn EXCEPT !.pc = "exited"]
            /\ ctxs' = ctxs
       ELSE /\ Len(ctxs) < MaxCtx
            /\ ctxs' = Append(ctxs, [state |-> "live", timeout |-> ConnectTimeout])
            /\ conn' = [conn EXCEPT !.pc = "l29", !.ctx = Len(ctxs) + 1]
    /\ UNCHANGED <<DB, DatabaseName, clients, Rest>>

\* Faulty variant: a failed ping is logged and the call goes on.
ConnectDB_PingLogged(ok) ==
    /\ conn.pc = "l33"
    /\ clients' = [clients EXCEPT ![conn.client] = IF ok THEN "pinged" ELSE "ping failed"]
    /\ conn' = [conn EXCEPT !.pc = "l38",
                            !.err = IF ok THEN "nil" ELSE "server selection timeout"]
    /\ UNCHANGED <<DB, DatabaseName, ctxs, Rest>>

\* config.go:29-31  client.Connect, log.Fatal on its error
ConnectDB_Connect(ok) ==
    /\ conn.pc = "l29"
    /\ clients' = [clients EXCEPT ![conn.client] =
                      IF ok THEN "connected" ELSE "connect failed"]
    /\ conn' = [conn EXCEPT !.pc = IF ok THEN "l33" ELSE "exited",
                            !.err = IF ok THEN "nil" ELSE "connect error"]
    /\ UNCHANGED <<DB, DatabaseName, ctxs, Rest>>

\* config.go:33-35  client.Ping, log.Fatal on its error
ConnectDB_Ping(ok) ==
    /\ conn.pc = "l33"
    /\ clients' = [clients EXCEPT ![conn.client] = IF ok THEN "pinged" ELSE "ping failed"]
    /\ conn' = [conn EXCEPT !.pc = IF ok THEN "l38" ELSE "exited",
                            !.err = IF ok THEN "nil" ELSE "server selection timeout"]
    /\ UNCHANGED <<DB, DatabaseName, ctxs, Rest>>

\* config.go:37-38
ConnectDB_SetDB ==
    /\ conn.pc = "l38"
    /\ DB' = conn.client
    /\ conn' = [conn EXCEPT !.pc = "l40"]
    /\ UNCHANGED <<DatabaseName, clients, ctxs, Rest>>

\* config.go:40, 27  return client, the deferred cancel runs
ConnectDB_Return ==
    /\ conn.pc = "l40"
    /\ ctxs' = [ctxs EXCEPT ![conn.ctx].state = "cancelled"]
    /\ conn' = [conn EXCEPT !.pc = "returned", !.ret = conn.client]
    /\ UNCHANGED <<DB, DatabaseName, clients, Rest>>

\* mon.go:59-64, config.go:43-46  NewCollectionWrapper[M](name) resolves the
\* collection through DB; on a nil DB the dereference panics and the process
\* ends.
NewCollectionWrapper(name, A) ==
    /\ conn.pc \in {"idle", "returned"}
    /\ name \notin DOMAIN wrappers
    /\ IF DB = 0
       THEN /\ conn' = [pc |-> "exited"]
            /\ UNCHANGED <<wrappers, db>>
       ELSE /\ wrappers' = (name :> A) @@ wrappers
            /\ db' = IF name \in DOMAIN db THEN db ELSE (name :> <<>>) @@ db
            /\ conn' = conn
    /\ UNCHANGED <<DB, DatabaseName, clients, ctxs, last, pc, call>>

InitConn ==
    /\ DB = 0 /\ DatabaseName = "" /\ conn = NoConn /\ clients = <<>>
    /\ wrappers = <<>> /\ db = <<>> /\ last = NoCall
    /\ pc = <<>> /\ call = <<>> /\ ctxs = <<>>

NextConn ==
    \/ \E uri \in Uris, name \in DatabaseNames : ConnectDB_NewClient(uri, name)
    \/ ConnectDB_SetDatabaseName
    \/ ConnectDB_CheckClient
    \/ \E ok \in BOOLEAN : ConnectDB_Connect(ok)
    \/ \E ok \in BOOLEAN : ConnectDB_Ping(ok)
    \/ ConnectDB_SetDB
    \/ ConnectDB_Return
    \/ \E name \in {Users, Campaigns} : NewCollectionWrapper(name, QuizShape)

SpecConn == InitConn /\ [][NextConn]_vars

\* C8: a ConnectDB call that does not end the process has a client without
\* error at every step past the check of that step's error; when it has
\* returned, what it returned is the client it constructed, DB is that same
\* client, connected and pinged, and DatabaseName is the name it was given.
\* While the process runs DB is nil or a client whose connect and ping
\* succeeded.
C8_ConnectDB ==
    /\ conn.pc = "returned" =>
          /\ conn.ret = conn.client /\ conn.ret # 0
          /\ DB = conn.ret
          /\ clients[DB] = "pinged"
          /\ DatabaseName = conn.databaseName
    /\ conn.pc \in {"l29", "l33", "l38", "l40"} => conn.err = "nil" /\ conn.client # 0
    /\ conn.pc # "exited" =>
          (DB # 0 => clients[DB] = "pinged")
    /\ \A h \in 1..Len(clients) :
          clients[h] \in {"connect failed", "ping failed"} => (conn.pc = "exited" /\ DB # h)

\* C8 witness: a second ConnectDB has returned; DB is its client and
\* DatabaseName its name, not the first call's.
C8_Witness ==
    /\ conn.pc = "returned"
    /\ DB = 2
    /\ DatabaseName = "test"
    /\ Len(clients) = 2

(***************************************************************************)
(* Contexts: concurrent callers, each call statement by statement          *)
(* (SpecCtx).  What the driver answers is left open: every driver call     *)
(* may succeed or fail, which decides the return path taken.               *)
(***************************************************************************)
Callers == {"a", "b"}

\* The calls that allocate a context; FindOneById and FindByIdAndUpdate run
\* inside FindOne and FindOneAndUpdate.
Ops == {"FindOne", "FindOneById", "FindOneAndUpdate", "FindByIdAndUpdate", "New",
        "FindMany", "FindManyPopulate", "CreateIndex"}

\* mon.go:167, 220  the calls that hand back a cursor, read by cursor.All
CursorOps == {"FindMany", "FindManyPopulate"}

NoCtxCall == [op |-> "none", ctx |-> 0, err |-> "nil", calls |-> 0]

Live(h) == ctxs[h].state = "live"

\* mon.go:30-33  GetContext; config.go:57 for CreateIndex
GetContext(op) ==
    [state |-> "live",
     timeout |-> IF op = "CreateIndex" THEN IndexTimeout ELSE ContextTimeout]

\* mon.go:75-76, 126-127, 147-148, 165-166, 202-203, config.go:57-58
\* ctx, cancel := GetContext(); defer cancel()
Begin(p, op) ==
    /\ pc[p] = "idle"
    /\ Len(ctxs) < MaxCtx
    /\ ctxs' = Append(ctxs, GetContext(op))
    /\ call' = [call EXCEPT ![p] = [op |-> op, ctx |-> Len(ctxs) + 1, err |-> "nil",
                                    calls |-> @.calls + 1]]
    /\ pc' = [pc EXCEPT ![p] = "driver"]
    /\ UNCHANGED <<wrappers, db, last, DB, DatabaseName, conn, clients>>

\* The error a wrapper call returns for a failed driver call (for
\* CreateIndex: logged, and false returned).
WrapError(op) ==
    CASE op \in {"FindOne", "FindOneById"} -> "Cannot find document"
      [] op \in {"FindOneAndUpdate", "FindByIdAndUpdate"} -> "Cannot update document"
      [] op = "CreateIndex" -> "false"
      [] OTHER -> "driver error"

\* mon.go:77, 128, 149, 167-170, 220-223, config.go:64-69  the driver call
\* and the check of its error
DriverCall(p, ok) ==
    /\ pc[p] = "driver"
    /\ call' = [call EXCEPT ![p].err = IF ok THEN "nil" ELSE WrapError(call[p].op)]
    /\ pc' = [pc EXCEPT ![p] = IF ok /\ call[p].op \in CursorOps THEN "all" ELSE "return"]
    /\ UNCHANGED <<wrappers, db, last, DB, DatabaseName, conn, clients, ctxs>>

\* mon.go:171-173, 224-227  cursor.All and the check of its error
CursorAllCall(p, ok) ==
    /\ pc[p] = "all"
    /\ call' = [call EXCEPT ![p].err = IF ok THEN "nil" ELSE "driver error"]
    /\ pc' = [pc EXCEPT ![p] = "return"]
    /\ UNCHANGED <<wrappers, db, last, DB, DatabaseName, conn, clients, ctxs>>

\* Faulty variant: cancel is called on the success path only.
ReturnCancelOnSuccess(p) ==
    /\ pc[p] = "return"
    /\ ctxs' = IF call[p].err = "nil"
               THEN [ctxs EXCEPT ![call[p].ctx].state = "cancelled"] ELSE ctxs
    /\ pc' = [pc EXCEPT ![p] = "idle"]
    /\ UNCHANGED <<wrappers, db, last, DB, DatabaseName, conn, clients, call>>

\* The return of the call; the deferred cancel runs.
Return(p) ==
    /\ pc[p] = "return"
    /\ ctxs' = [ctxs EXCEPT ![call[p].ctx].state = "cancelled"]
    /\ pc' = [pc EXCEPT ![p] = "idle"]
    /\ UNCHANGED <<wrappers, db, last, DB, DatabaseName, conn, clients, call>>

InitCtx ==
    /\ wrappers = [c \in {Users} |-> QuizShape]
    /\ db = [c \in {Users} |-> <<>>]
    /\ last = NoCall
    /\ DB = 1 /\ DatabaseName = "app" /\ conn = NoConn /\ clients = <<"pinged">>
    /\ pc = [p \in Callers |-> "idle"]
    /\ call = [p \in Callers |-> NoCtxCall]
    /\ ctxs = <<>>

NextCtx ==
    \/ \E p \in Callers, op \in Ops : Begin(p, op)
    \/ \E p \in Callers, ok \in BOOLEAN : DriverCall(p, ok)
    \/ \E p \in Callers, ok \in BOOLEAN : CursorAllCall(p, ok)
    \/ \E p \in Callers : Return(p)

SpecCtx == InitCtx /\ [][NextCtx]_vars

CounterShape == [fields |-> {"_id", "role", "n"}, omitempty |-> {}]

InitialStores ==
    {<<[_id |-> 1, role |-> "King", n |-> 0]>>,
     <<[_id |-> 1, role |-> "King", n |-> 0], [_id |-> 2, role |-> "King", n |-> 0]>>}

Filters == {<<<<"_id", 1>>>>, <<<<"role", "King">>>>}

\* {"$set": {"role": "Queen"}} and {"$inc": {"n": 1}}
AtomicUpdates ==
    {[op |-> "$set", field |-> "role", val |-> "Queen"],
     [op |-> "$inc", field |-> "n", val |-> 1]}

\* mon.go:126-127
FOAU_Begin(p, find, update, updated) ==
    /\ pc[p] = "idle"
    /\ call[p].calls = 0
    /\ Len(ctxs) < MaxCtx
    /\ ctxs' = Append(ctxs, GetContext("FindOneAndUpdate"))
    /\ call' = [call EXCEPT ![p] = [op |-> "FindOneAndUpdate", ctx |-> Len(ctxs) + 1,
                                    err |-> "nil", calls |-> 1, find |-> find,
                                    update |-> update, updated |-> updated]]
    /\ pc' = [pc EXCEPT ![p] = "driver"]
    /\ UNCHANGED <<wrappers, db, last, DB, DatabaseName, conn, clients>>

\* Faulty variant: the document is read when the caller starts and written back
\* later (find, change, replace instead of one find-and-modify).
FOAU_DriverStale(p) ==
    LET r == DriverFindOneAndUpdate(last.db0, call[p].find, call[p].update)
    IN  /\ pc[p] = "driver"
        /\ db' = [db EXCEPT ![Users] = r.coll]
        /\ call' = [call EXCEPT ![p].err = IF r.err = "nil" THEN "nil"
                                           ELSE "Cannot update document"]
        /\ pc' = [pc EXCEPT ![p] = "return"]
        /\ UNCHANGED <<wrappers, last, DB, DatabaseName, conn, clients, ctxs>>

\* mon.go:128-131  the find-and-modify and the decoding of its result
FOAU_Driver(p) ==
    LET r == FindOneAndUpdate(Users, call[p].find, call[p].update, call[p].updated)
    IN  /\ pc[p] = "driver"
        /\ db' = [db EXCEPT ![Users] = r.coll]
        /\ call' = [call EXCEPT ![p].err = r.err, ![p].updated = r.updated]
        /\ pc' = [pc EXCEPT ![p] = "return"]
        /\ UNCHANGED <<wrappers, last, DB, DatabaseName, conn, clients, ctxs>>

\* mon.go:130, 132  return, the deferred cancel runs
FOAU_Return(p) ==
    /\ pc[p] = "return"
    /\ ctxs' = [ctxs EXCEPT ![call[p].ctx].state = "cancelled"]
    /\ pc' = [pc EXCEPT ![p] = "done"]
    /\ UNCHANGED <<wrappers, db, last, DB, DatabaseName, conn, clients, call>>

InitConc ==
    /\ wrappers = [c \in {Users} |-> CounterShape]
    /\ \E store \in InitialStores :
          /\ db = [c \in {Users} |-> store]
          /\ last = [NoCall EXCEPT !.db0 = store]
    /\ DB = 1 /\ DatabaseName = "app" /\ conn = NoConn /\ clients = <<"pinged">>
    /\ pc = [p \in Callers |-> "idle"]
    /\ call = [p \in Callers |-> NoCtxCall]
    /\ ctxs = <<>>

NextConc ==
    \/ \E p \in Callers, f \in Filters, u \in AtomicUpdates :
          FOAU_Begin(p, f, u, ZeroValue(CounterShape))
    \/ \E p \in Callers : FOAU_Driver(p)
    \/ \E p \in Callers : FOAU_Return(p)

SpecConc == InitConc /\ [][NextConc]_vars

BothDone == \A p \in Callers : pc[p] = "done"

\* The two calls are aimed at the same document: in the store both started
\* from, the first match of either filter is the same document.
SameTarget ==
    /\ Matching(last.db0, call["a"].find) # <<>>
    /\ Matching(last.db0, call["b"].find) # <<>>
    /\ FirstMatch(last.db0, call["a"].find) = FirstMatch(last.db0, call["b"].find)

Target == FirstMatch(last.db0, call["a"].find)

\* The store, errors and outputs of running p's call and then q's from the
\* store both started from.
Serial(p, q) ==
    LET r1 == DriverFindOneAndUpdate(last.db0, call[p].find, call[p].update)
        r2 == DriverFindOneAndUpdate(r1.coll, call[q].find, call[q].update)
    IN  /\ db[Users] = r2.coll
        /\ call[p].err = "nil" <=> r1.err = "nil"
        /\ call[q].err = "nil" <=> r2.err = "nil"
        /\ r1.err = "nil" => call[p].updated = r1.doc[1]
        /\ r2.err = "nil" => call[q].updated = r2.doc[1]

\* C10, as stated: two concurrent FindOneAndUpdate calls against the same
\* matching document both return no error, and the stored document ends as
\* both updates applied in one order or the other.
C10_BothApplied ==
    (BothDone /\ SameTarget) =>
        LET d == last.db0[Target]
            ua == call["a"].update
            ub == call["b"].update
        IN  /\ call["a"].err = "nil"
            /\ call["b"].err = "nil"
            /\ db[Users][Target] \in {ApplyUpdate(ApplyUpdate(d, ua), ub),
                                      ApplyUpdate(ApplyUpdate(d, ub), ua)}

\* C10, amended: under every interleaving the outcome (the store, each
\* caller's error and output) is that of the two calls run one after the
\* other in some order; a caller gets "Cannot update document" exactly when
\* its filter matches nothing at its turn.  When both filter by the _id of a
\* stored document, both return no error and that document ends as both
\* updates applied.
C10_Serializable ==
    BothDone =>
        /\ Serial("a", "b") \/ Serial("b", "a")
        /\ \A p \in Callers : call[p].err \in {"nil", "Cannot update document"}
        /\ (call["a"].find = <<<<"_id", 1>>>> /\ call["b"].find = <<<<"_id", 1>>>>) =>
              /\ call["a"].err = "nil" /\ call["b"].err = "nil"
              /\ db[Users][1] \in
                    {ApplyUpdate(ApplyUpdate(last.db0[1], call["a"].update), call["b"].update),
                     ApplyUpdate(ApplyUpdate(last.db0[1], call["b"].update), call["a"].update)}

\* C10 witness: both callers filtered by _id, one set the role and the other
\* incremented the counter, and the document shows both.
C10_Witness ==
    /\ BothDone
    /\ call["a"].find = <<<<"_id", 1>>>> /\ call["b"].find = <<<<"_id", 1>>>>
    /\ call["a"].update.op = "$set" /\ call["b"].update.op = "$inc"
    /\ db[Users][1]["role"] = "Queen" /\ db[Users][1]["n"] = 1
    /\ call["a"].err = "nil" /\ call["b"].err = "nil"

====
